---------------------------- MODULE Spec2Model ----------------------------
(***************************************************************************)
(* Model of Recent_Site_Visits_Spreadsheet.py: one run of                  *)
(* analyze_site_visits_from_sheets as a sequential pipeline.  The state is *)
(* the input sheet, the reference time datetime.now(), the local           *)
(* dataframes of the function and what the caller observes (the value      *)
(* returned or the exception raised, the console, the sheets written).     *)
(*                                                                         *)
(* Calendar dates are proleptic Gregorian ordinals (date.toordinal()),     *)
(* timestamps are hours (ordinal * 24 + hour of day).  The text of a Date  *)
(* cell is the tuple of its "/"-separated numeric fields: <<6, 1, 24>> is  *)
(* the cell "06/01/24".                                                    *)
(***************************************************************************)
EXTENDS Integers, Sequences, FiniteSets, TLC

(* ------------------------------ bounds -------------------------------- *)

\* how many entries of the TARGET_SITES list the model keeps
NumTargetSites == 3

\* longest input sheet (number of data rows)
MaxRecords == 2

(* ------------------------- program constants -------------------------- *)

AllTargetSites ==
    << "NANT", "BLCK", "AMAG", "MRCH", "HEMP", "HOOK", "LOVE",
       "BRIG", "WILD", "SILD", "OLDB", "PORT", "CAPE", "LEWE", "HLPN",
       "SEAB", "BRAD", "SPRK", "HLGT", "BRMR", "RATH", "WOOD", "CMPT" >>

TARGET_SITES == SubSeq(AllTargetSites, 1, NumTargetSites)

\* the site names in string order: groupby('Site') returns its groups sorted by key
SitesInStringOrder ==
    << "AMAG", "BLCK", "BRAD", "BRIG", "BRMR", "CAPE", "CMPT", "HEMP",
       "HLGT", "HLPN", "HOOK", "LEWE", "LOVE", "MRCH", "NANT", "OLDB",
       "PORT", "RATH", "SEAB", "SILD", "SPRK", "WILD", "WOOD" >>

\* Days_Since_Visit of a site without records
SENTINEL == 999

VISIT_REQUIRED_DAYS == 180

MEDIUM_DAYS == 120

priority_order == [p \in {"HIGH", "MEDIUM", "LOW"} |->
                     CASE p = "HIGH" -> 0 [] p = "MEDIUM" -> 1 [] p = "LOW" -> 2]

SHEETS == {"Site Visit Analysis", "Summary", "Priority Sites", "Priority Breakdown"}

Range(s) == {s[i] : i \in DOMAIN s}

(* ------------------------------ calendar ------------------------------ *)

IsLeap(y) == (y % 4 = 0 /\ y % 100 # 0) \/ y % 400 = 0

DaysInMonth(y, m) ==
    CASE m \in {1, 3, 5, 7, 8, 10, 12} -> 31
      [] m \in {4, 6, 9, 11} -> 30
      [] OTHER -> IF IsLeap(y) THEN 29 ELSE 28

RECURSIVE DaysBeforeMonth(_, _)
DaysBeforeMonth(y, m) ==
    IF m = 1 THEN 0 ELSE DaysBeforeMonth(y, m - 1) + DaysInMonth(y, m - 1)

Ordinal(y, m, d) ==
    365 * (y - 1) + ((y - 1) \div 4) - ((y - 1) \div 100) + ((y - 1) \div 400)
      + DaysBeforeMonth(y, m) + d

ValidYMD(y, m, d) == m \in 1..12 /\ d >= 1 /\ d <= DaysInMonth(y, m)


Timestamp(y, m, d, h) == Ordinal(y, m, d) * 24 + h

(* --------------------------- date parsing ----------------------------- *)

\* an unparsed cell is a tuple of fields, a failed parse is <<>>, a parsed
\* date is <<ordinal>>

\* strptime '%m/%d/%y': month/day/two-digit year, 00..68 -> 20xx, 69..99 -> 19xx
ParseFormat_mdy(t) ==
    IF Len(t) = 3 /\ t[3] \in 0..99
    THEN LET y == IF t[3] <= 68 THEN 2000 + t[3] ELSE 1900 + t[3]
         IN  IF ValidYMD(y, t[1], t[2]) THEN << Ordinal(y, t[1], t[2]) >> ELSE << >>
    ELSE << >>

\* strptime '%m/%d/%Y': month/day/four-digit year
ParseFormat_mdY(t) ==
    IF Len(t) = 3 /\ t[3] \in 1000..9999 /\ ValidYMD(t[3], t[1], t[2])
    THEN << Ordinal(t[3], t[1], t[2]) >>
    ELSE << >>

\* format='mixed': each cell on its own, month first, day first only when the
\* first field cannot be a month; a two-digit year is the year of that ending
\* within fifty years of 2024
ParseMixed(t) ==
    IF Len(t) = 3 /\ (t[3] \in 0..99 \/ t[3] \in 1000..9999)
    THEN LET y == IF t[3] > 99 THEN t[3]
                  ELSE IF 2000 + t[3] >= 2024 + 50 THEN 1900 + t[3] ELSE 2000 + t[3]
         IN  IF ValidYMD(y, t[1], t[2]) THEN << Ordinal(y, t[1], t[2]) >>
             ELSE IF t[1] > 12 /\ ValidYMD(y, t[2], t[1])
                  THEN << Ordinal(y, t[2], t[1]) >>
                  ELSE << >>
    ELSE << >>

\* infer_datetime_format: the format guessed from the first cell is applied to
\* every cell
ParseInferred(t, first) ==
    IF Len(first) = 3 /\ first[3] \in 0..99 THEN ParseFormat_mdy(t)
    ELSE ParseFormat_mdY(t)

\* pd.to_datetime over the whole column: every cell parses or the call raises
ColumnParses(col, P(_)) == \A i \in DOMAIN col : P(col[i]) # << >>

\* the fallback chain of lines 134-146: the first attempt that parses the whole
\* column gives the dates of the whole column; <<"raise">> when the last one raises
to_datetime(col) ==
    IF ColumnParses(col, ParseMixed)
    THEN << "ok", [i \in DOMAIN col |-> ParseMixed(col[i])[1]] >>
    ELSE IF ColumnParses(col, ParseFormat_mdy)
    THEN << "ok", [i \in DOMAIN col |-> ParseFormat_mdy(col[i])[1]] >>
    ELSE IF ColumnParses(col, ParseFormat_mdY)
    THEN << "ok", [i \in DOMAIN col |-> ParseFormat_mdY(col[i])[1]] >>
    ELSE IF col # << >> /\ ColumnParses(col, LAMBDA t : ParseInferred(t, col[1]))
    THEN << "ok", [i \in DOMAIN col |-> ParseInferred(col[i], col[1])[1]] >>
    ELSE << "raise" >>

(* ------------------------------- inputs ------------------------------- *)

\* a site id that is not in TARGET_SITES
OtherSite == "TEST"

SiteIds == Range(TARGET_SITES) \cup {OtherSite}

\* cells of the Date column: 01/01/24, 06/01/24, 06/01/2024, 04/03/24, 02/03/24,
\* 11/06/21, 08/02/24 and the unparseable 13/45/24
DateTexts ==
    { <<1, 1, 24>>, <<6, 1, 24>>, <<6, 1, 2024>>, <<4, 3, 24>>, <<2, 3, 24>>,
      <<11, 6, 21>>, <<8, 2, 24>>, <<13, 45, 24>> }

\* values of datetime.now()
Nows ==
    { Timestamp(2024, 8, 1, 0), Timestamp(2024, 8, 1, 12), Timestamp(2024, 8, 2, 12) }

SeqsUpTo(S, n) == UNION { [1..k -> S] : k \in 0..n }

\* worksheet.get_all_records(): one dict per data row, all with the header's keys
RecordLists ==
    SeqsUpTo([Site : SiteIds, Date : DateTexts], MaxRecords)
      \cup SeqsUpTo([Site : SiteIds], MaxRecords)
      \cup SeqsUpTo([Date : DateTexts], MaxRecords)

\* pd.DataFrame(records).columns: the keys of the records, none for no records
Columns(recs) == IF recs = << >> THEN {} ELSE DOMAIN recs[1]

(* ------------------------------- state -------------------------------- *)

VARIABLES
    reachable,      \* the record source can be opened and read
    records,        \* the rows of the worksheet
    today,          \* datetime.now() of this run, in hours
    pc,             \* position in analyze_site_visits_from_sheets
    df,             \* <<>> for None, else <<rows>>
    latest_visits,  \* the dataframe of site rows
    summary_stats,
    sheets,         \* sheets of the output workbook written so far
    console,        \* failure messages printed
    outcome,        \* what the caller gets
    run,            \* 1 for the first run on this input, 2 for the second
    previous        \* the outcome of the first run

vars == << reachable, records, today, pc, df, latest_visits, summary_stats,
           sheets, console, outcome, run, previous >>

Pending == [kind |-> "pending", rows |-> << >>, error |-> ""]

NoStats == [total |-> 0, requiring |-> 0, ok |-> 0, high |-> 0, medium |-> 0,
            low |-> 0, avg |-> << >>, max |-> << >>, nodata |-> 0]

Init ==
    /\ reachable \in BOOLEAN
    /\ records \in RecordLists
    /\ reachable = FALSE => records = << >>
    /\ today \in Nows
    /\ pc = "load"
    /\ df = << >>
    /\ latest_visits = << >>
    /\ summary_stats = NoStats
    /\ sheets = {}
    /\ console = {}
    /\ outcome = Pending
    /\ run = 1
    /\ previous = Pending


(* ------------------------------ helpers ------------------------------- *)

Max(S) == CHOOSE x \in S : \A y \in S : y <= x

RECURSIVE SumDays(_)
SumDays(rows) ==
    IF rows = << >> THEN 0 ELSE Head(rows).Days_Since_Visit + SumDays(Tail(rows))

\* the orders in which a set can be iterated
Orders(S) ==
    { o \in [1..Cardinality(S) -> S] : \A i, j \in DOMAIN o : o[i] = o[j] => i = j }

Raised(e) == [kind |-> "raised", rows |-> << >>, error |-> e]

ReturnedNone == [kind |-> "returned_none", rows |-> << >>, error |-> ""]

Returned(rows) == [kind |-> "returned", rows |-> rows, error |-> ""]

(* --------------------- load_data_from_google_sheets ------------------- *)

\* variant: the except branch hands back an empty dataframe instead of None
load_data_empty_frame(ok, recs) == << recs >>

\* <<>> is None (the except branch), <<rows>> the dataframe
load_data_from_google_sheets(ok, recs) == IF ok THEN << recs >> ELSE << >>

LoadData ==
    /\ pc = "load"
    /\ LET loaded == load_data_from_google_sheets(reachable, records)
       IN  /\ df' = loaded
           /\ IF loaded = << >>
              THEN /\ console' = console \cup { "Error loading data from Google Sheets",
                                                "Failed to load data from Google Sheets" }
                   /\ outcome' = ReturnedNone
                   /\ pc' = "done"
              ELSE /\ pc' = "convert"
                   /\ UNCHANGED << console, outcome >>
    /\ UNCHANGED << reachable, records, today, latest_visits, summary_stats,
                    sheets, run, previous >>

(* ------------------- analyze_site_visits_from_sheets ------------------ *)

\* lines 134-148: df['Date'] = pd.to_datetime(df['Date'], ...)
ConvertDates ==
    /\ pc = "convert"
    /\ LET rows == df[1]
       IN  IF "Date" \notin Columns(rows)
           THEN /\ outcome' = Raised("KeyError")
                /\ pc' = "done"
                /\ df' = df
           ELSE LET r == to_datetime([i \in DOMAIN rows |-> rows[i].Date])
                IN  IF r[1] = "raise"
                    THEN /\ outcome' = Raised("ValueError")
                         /\ pc' = "done"
                         /\ df' = df
                    ELSE /\ df' = << [i \in DOMAIN rows |->
                                        [rows[i] EXCEPT !.Date = r[2][i]]] >>
                         /\ pc' = "filter"
                         /\ outcome' = outcome
    /\ UNCHANGED << reachable, records, today, latest_visits, summary_stats,
                    sheets, console, run, previous >>

\* df[df['Site'].isin(TARGET_SITES)]
target_data(rows) == SelectSeq(rows, LAMBDA r : r.Site \in Range(TARGET_SITES))

\* variant: .last() for .max(), the date of the last row of each site
groupby_last(rows) ==
    LET present == { rows[i].Site : i \in DOMAIN rows }
        keys    == SelectSeq(SitesInStringOrder, LAMBDA s : s \in present)
    IN  [k \in DOMAIN keys |->
           [Site |-> keys[k],
            Last_Visit_Date |->
               << rows[Max({ j \in DOMAIN rows : rows[j].Site = keys[k] })].Date >>]]

\* target_data.groupby('Site')['Date'].max().reset_index(): one row per site
\* that has rows, in the order of the site names
groupby_max(rows) ==
    LET present == { rows[i].Site : i \in DOMAIN rows }
        keys    == SelectSeq(SitesInStringOrder, LAMBDA s : s \in present)
    IN  [k \in DOMAIN keys |->
           [Site |-> keys[k],
            Last_Visit_Date |->
               << Max({ rows[i].Date : i \in { j \in DOMAIN rows : rows[j].Site = keys[k] } }) >>]]

\* lines 151-157
FilterAggregate ==
    /\ pc = "filter"
    /\ IF "Site" \notin Columns(df[1])
       THEN /\ outcome' = Raised("KeyError")
            /\ pc' = "done"
            /\ latest_visits' = latest_visits
       ELSE /\ latest_visits' = groupby_max(target_data(df[1]))
            /\ pc' = "recency"
            /\ outcome' = outcome
    /\ UNCHANGED << reachable, records, today, df, summary_stats, sheets,
                    console, run, previous >>

\* variant: int(total_seconds() / 86400), which truncates toward zero
days_between_truncated(now, date) ==
    LET h == now - date * 24
    IN  IF h >= 0 THEN h \div 24 ELSE -((-h) \div 24)

\* (today - Last_Visit_Date).dt.days: the days field of a Timedelta, with the
\* remainder of 0..23 hours left over
days_between(now, date) == (now - date * 24) \div 24

\* variant: >= for > at the upper threshold
get_priority_inclusive(days) ==
    IF days >= VISIT_REQUIRED_DAYS THEN "HIGH"
    ELSE IF days > MEDIUM_DAYS THEN "MEDIUM"
    ELSE "LOW"

get_priority(days) ==
    IF days > VISIT_REQUIRED_DAYS THEN "HIGH"
    ELSE IF days > MEDIUM_DAYS THEN "MEDIUM"
    ELSE "LOW"

\* lines 160-175
ComputeRecency ==
    /\ pc = "recency"
    /\ latest_visits' =
         [i \in DOMAIN latest_visits |->
            LET days == days_between(today, latest_visits[i].Last_Visit_Date[1])
            IN  [Site |-> latest_visits[i].Site,
                 Last_Visit_Date |-> latest_visits[i].Last_Visit_Date,
                 Days_Since_Visit |-> days,
                 Visit_Required |-> days > VISIT_REQUIRED_DAYS,
                 Priority |-> get_priority(days)]]
    /\ pc' = "backfill"
    /\ UNCHANGED << reachable, records, today, df, summary_stats, sheets,
                    console, outcome, run, previous >>

sites_no_data(lv) == Range(TARGET_SITES) \ { lv[i].Site : i \in DOMAIN lv }

\* variant: the backfilled row classified like a fresh visit
new_row_low(site) ==
    [Site |-> site,
     Last_Visit_Date |-> << >>,
     Days_Since_Visit |-> SENTINEL,
     Visit_Required |-> TRUE,
     Priority |-> "LOW"]

new_row(site) ==
    [Site |-> site,
     Last_Visit_Date |-> << >>,
     Days_Since_Visit |-> SENTINEL,
     Visit_Required |-> TRUE,
     Priority |-> "HIGH"]

\* lines 178-193: one row appended per element of the set sites_no_data, in the
\* order the set iterates, which the string hash seed of the process decides
Backfill ==
    /\ pc = "backfill"
    /\ \E order \in Orders(sites_no_data(latest_visits)) :
         latest_visits' = latest_visits \o [i \in DOMAIN order |-> new_row(order[i])]
    /\ pc' = "sort"
    /\ UNCHANGED << reachable, records, today, df, summary_stats, sheets,
                    console, outcome, run, previous >>

\* a sorts strictly before b under ['Priority_Order', 'Days_Since_Visit'],
\* ascending=[True, False]
SortsBefore(a, b) ==
    \/ priority_order[a.Priority] < priority_order[b.Priority]
    \/ /\ priority_order[a.Priority] = priority_order[b.Priority]
       /\ a.Days_Since_Visit > b.Days_Since_Visit

\* x goes in front of the first row it sorts strictly before
RECURSIVE InsertRow(_, _)
InsertRow(sorted, x) ==
    IF sorted = << >> THEN << x >>
    ELSE IF SortsBefore(x, Head(sorted)) THEN << x >> \o sorted
    ELSE << Head(sorted) >> \o InsertRow(Tail(sorted), x)

\* variant: the sorted frame is not assigned back
sort_values_discarded(rows) == rows

\* the multi-key sort of sort_values keeps rows with equal keys in their order
RECURSIVE sort_values(_)
sort_values(rows) ==
    IF rows = << >> THEN << >>
    ELSE InsertRow(sort_values(SubSeq(rows, 1, Len(rows) - 1)), rows[Len(rows)])

\* lines 196-199
SortRows ==
    /\ pc = "sort"
    /\ latest_visits' = sort_values(latest_visits)
    /\ pc' = "summarize"
    /\ UNCHANGED << reachable, records, today, df, summary_stats, sheets,
                    console, outcome, run, previous >>

\* lines 202-212; the mean is kept as <<sum, count>>, <<>> is NaN
summary_stats_of(lv) ==
    LET Count(P(_)) == Len(SelectSeq(lv, P))
        below == SelectSeq(lv, LAMBDA r : r.Days_Since_Visit < SENTINEL)
    IN  [total     |-> Len(lv),
         requiring |-> Count(LAMBDA r : r.Visit_Required),
         ok        |-> Count(LAMBDA r : ~r.Visit_Required),
         high      |-> Count(LAMBDA r : r.Priority = "HIGH"),
         medium    |-> Count(LAMBDA r : r.Priority = "MEDIUM"),
         low       |-> Count(LAMBDA r : r.Priority = "LOW"),
         avg       |-> IF below = << >> THEN << >> ELSE << SumDays(below), Len(below) >>,
         max       |-> IF below = << >> THEN << >>
                       ELSE << Max({ below[i].Days_Since_Visit : i \in DOMAIN below }) >>,
         nodata    |-> Count(LAMBDA r : r.Days_Since_Visit = SENTINEL)]

Summarize ==
    /\ pc = "summarize"
    /\ summary_stats' = summary_stats_of(latest_visits)
    /\ pc' = "write"
    /\ UNCHANGED << reachable, records, today, df, latest_visits, sheets,
                    console, outcome, run, previous >>

\* lines 215-333: the four sheets of the workbook
WriteReport ==
    /\ pc = "write"
    /\ sheets' = SHEETS
    /\ pc' = "return"
    /\ UNCHANGED << reachable, records, today, df, latest_visits, summary_stats,
                    console, outcome, run, previous >>

\* line 365
Return ==
    /\ pc = "return"
    /\ outcome' = Returned(latest_visits)
    /\ pc' = "done"
    /\ UNCHANGED << reachable, records, today, df, latest_visits, summary_stats,
                    sheets, console, run, previous >>

Next ==
    \/ LoadData
    \/ ConvertDates
    \/ FilterAggregate
    \/ ComputeRecency
    \/ Backfill
    \/ SortRows
    \/ Summarize
    \/ WriteReport
    \/ Return

Spec == Init /\ [][Next]_vars

\* the script started a second time on the same sheet at the same reference time
Rerun ==
    /\ pc = "done"
    /\ run = 1
    /\ run' = 2
    /\ previous' = outcome
    /\ pc' = "load"
    /\ df' = << >>
    /\ latest_visits' = << >>
    /\ summary_stats' = NoStats
    /\ sheets' = {}
    /\ console' = {}
    /\ outcome' = Pending
    /\ UNCHANGED << reachable, records, today >>

NextTwoRuns == Next \/ Rerun

SpecTwoRuns == Init /\ [][NextTwoRuns]_vars


(* ============================== claims ================================ *)

Finished == pc = "done"

ReturnedRows == outcome.kind = "returned"

Rows == outcome.rows

Targets == Range(TARGET_SITES)

HasRecords(site) ==
    \E i \in DOMAIN records : "Site" \in DOMAIN records[i] /\ records[i].Site = site

\* the calendar date each cell text of DateTexts denotes, as date.toordinal();
\* <<>> for text that is no date
CalendarDate(t) ==
    CASE t = <<1, 1, 24>>   -> << 738886 >>
      [] t = <<6, 1, 24>>   -> << 739038 >>
      [] t = <<6, 1, 2024>> -> << 739038 >>
      [] t = <<4, 3, 24>>   -> << 738979 >>
      [] t = <<2, 3, 24>>   -> << 738919 >>
      [] t = <<11, 6, 21>>  -> << 738100 >>
      [] t = <<8, 2, 24>>   -> << 739100 >>
      [] OTHER              -> << >>

HasBothFields == \A i \in DOMAIN records : DOMAIN records[i] = {"Site", "Date"}

\* a sequence of visit records: each has a site id and a date
VisitRecords ==
    /\ reachable
    /\ HasBothFields
    /\ \A i \in DOMAIN records : CalendarDate(records[i].Date) # << >>

\* the most recent visit among the input records of a site
LastVisit(site) ==
    Max({ CalendarDate(records[i].Date)[1] :
            i \in { j \in DOMAIN records : records[j].Site = site } })

IsBackfilled(r) == r.Last_Visit_Date = << >>

\* C1: for any sequence of visit records, the empty one included, the run
\* returns rows holding exactly one row per target site and no other site.
C1_OneRowPerTargetSite ==
    (Finished /\ VisitRecords) =>
        /\ ReturnedRows
        /\ \A s \in Targets : Cardinality({ i \in DOMAIN Rows : Rows[i].Site = s }) = 1
        /\ \A i \in DOMAIN Rows : Rows[i].Site \in Targets

\* the tier the thresholds of the specification give a number of days
Tier(days) ==
    CASE days > 180                -> "HIGH"
      [] days > 120 /\ days <= 180 -> "MEDIUM"
      [] days <= 120               -> "LOW"

BoundaryDays == {-1, 0, 119, 120, 121, 122, 179, 180, 181, 182, 998, 999, 1000}

Rank(p) == CASE p = "HIGH" -> 0 [] p = "MEDIUM" -> 1 [] p = "LOW" -> 2

\* C4: in the returned rows the priority rank never decreases from a row to the
\* next, and between adjacent rows of equal priority days-since-visit never
\* increases; the backfilled rows are part of that order.
C4_SortOrder ==
    (Finished /\ ReturnedRows) =>
        \A i \in 1..(Len(Rows) - 1) :
            /\ Rank(Rows[i].Priority) <= Rank(Rows[i + 1].Priority)
            /\ Rank(Rows[i].Priority) = Rank(Rows[i + 1].Priority) =>
                   Rows[i].Days_Since_Visit >= Rows[i + 1].Days_Since_Visit

C4_Witness ==
    /\ Finished /\ ReturnedRows
    /\ IsBackfilled(Rows[1])
    /\ \E i \in DOMAIN Rows :
         /\ i > 1
         /\ ~IsBackfilled(Rows[i])
         /\ Rows[i].Priority = "HIGH"
    /\ \E i \in DOMAIN Rows : Rows[i].Priority # "HIGH"

\* C5: in the returned rows no site that has a visit record comes ahead of a
\* site that has none, whatever the last visit date and the reference time.
C5_NoDataFirst ==
    (Finished /\ ReturnedRows) =>
        \A i, j \in DOMAIN Rows :
            (i < j /\ HasRecords(Rows[i].Site)) => HasRecords(Rows[j].Site)

\* C6: 'Sites with No Data' is the number of target sites without input
\* records, and the average and the maximum of days-since-visit are taken over
\* exactly the target sites with records.
C6_SummaryOverSitesWithData ==
    (Finished /\ ReturnedRows) =>
        LET withData == SelectSeq(Rows, LAMBDA r : HasRecords(r.Site))
        IN  /\ summary_stats.nodata = Cardinality({ s \in Targets : ~HasRecords(s) })
            /\ summary_stats.avg =
                 IF withData = << >> THEN << >>
                 ELSE << SumDays(withData), Len(withData) >>
            /\ summary_stats.max =
                 IF withData = << >> THEN << >>
                 ELSE << Max({ withData[i].Days_Since_Visit : i \in DOMAIN withData }) >>

\* C7: a second run on the same records at the same reference time gives the
\* caller the same outcome as the first, the rows in the same order.
C7_SameOutputTwice ==
    (Finished /\ run = 2) => outcome = previous

Unparseable ==
    /\ reachable
    /\ \E i \in DOMAIN records :
         "Date" \in DOMAIN records[i] /\ CalendarDate(records[i].Date) = << >>

FieldMissing == reachable /\ ~HasBothFields

InputFailure == ~reachable \/ FieldMissing \/ Unparseable

C9_LastVisitIsMax ==
    (Finished /\ ReturnedRows) =>
        /\ \A i \in DOMAIN Rows :
              HasRecords(Rows[i].Site) =>
                  Rows[i].Last_Visit_Date = << LastVisit(Rows[i].Site) >>
        /\ ( /\ { records[i] : i \in DOMAIN records }
                  = { [Site |-> "NANT", Date |-> <<1, 1, 24>>],
                      [Site |-> "NANT", Date |-> <<6, 1, 24>>] }
             /\ today = 739099 * 24 )
           => \E i \in DOMAIN Rows :
                 /\ Rows[i].Site = "NANT"
                 /\ Rows[i].Last_Visit_Date = << 739038 >>
                 /\ Rows[i].Days_Since_Visit = 61
                 /\ Rows[i].Priority = "LOW"

C9_Witness ==
    /\ Finished /\ ReturnedRows
    /\ records = << [Site |-> "NANT", Date |-> <<6, 1, 24>>],
                    [Site |-> "NANT", Date |-> <<1, 1, 24>>] >>
    /\ today = 739099 * 24
    /\ \E i \in DOMAIN Rows : Rows[i].Site = "NANT" /\ Rows[i].Days_Since_Visit = 61

\* hours from midnight of the last visit to the reference time
Elapsed(r) == today - r.Last_Visit_Date[1] * 24

TruncatedDays(h) == IF h >= 0 THEN h \div 24 ELSE -((-h) \div 24)

\* C10 as stated: days-since-visit is the elapsed time truncated toward zero
\* to whole days, also for a last visit after the reference time, and
\* visit-required is true exactly when it exceeds 180.
C10_TruncatedTowardZero ==
    (Finished /\ ReturnedRows) =>
        \A i \in DOMAIN Rows :
            HasRecords(Rows[i].Site) =>
                /\ Rows[i].Days_Since_Visit = TruncatedDays(Elapsed(Rows[i]))
                /\ Rows[i].Visit_Required = (Rows[i].Days_Since_Visit > 180)

\* C10 as amended: days-since-visit is the elapsed time rounded down to whole
\* days (the whole days d with d days <= elapsed < d + 1 days), which is the
\* truncation whenever the last visit is not after the reference time, and
\* visit-required is true exactly when it exceeds 180.
C10_FlooredDays ==
    (Finished /\ ReturnedRows) =>
        \A i \in DOMAIN Rows :
            HasRecords(Rows[i].Site) =>
                /\ Rows[i].Days_Since_Visit * 24 <= Elapsed(Rows[i])
                /\ Elapsed(Rows[i]) < (Rows[i].Days_Since_Visit + 1) * 24
                /\ Elapsed(Rows[i]) >= 0 =>
                      Rows[i].Days_Since_Visit = TruncatedDays(Elapsed(Rows[i]))
                /\ Rows[i].Visit_Required = (Rows[i].Days_Since_Visit > 180)

C10_Witness ==
    /\ Finished /\ ReturnedRows
    /\ \E i, j \in DOMAIN Rows :
         /\ HasRecords(Rows[i].Site)
         /\ Elapsed(Rows[i]) = -12
         /\ Rows[i].Days_Since_Visit = -1
         /\ HasRecords(Rows[j].Site)
         /\ Elapsed(Rows[j]) = 180 * 24 + 12
         /\ Rows[j].Days_Since_Visit = 180
         /\ ~Rows[j].Visit_Required

=============================================================================
